---------------------------- MODULE Spec2Model ----------------------------
(***************************************************************************)
(* A model of the `lup` crate: the `Lup` accumulators (Any, All, Min, Max, *)
(* Sum, Prod), the `Secret` wrapper and the driver that the `lup!` macro   *)
(* expands to.  A program is a stack of nested loops over a nested list;   *)
(* each loop owns one accumulator (`sum` in the macro) and one range       *)
(* iterator (`iter`).                                                      *)
(*                                                                         *)
(* Indices are 0-based as in the source; TLA+ sequences are 1-based, so    *)
(* list[i] of the source is list[i + 1] here.                              *)
(***************************************************************************)
EXTENDS Integers, Sequences, FiniteSets, TLC

(***************************************************************************)
(* Bounds of the model.                                                    *)
(***************************************************************************)
\* Longest list of a single-level loop.
MaxLen == 4
\* Largest number of nodes (lists and leaves below the root) of a nested list.
MaxNodes == 6

(***************************************************************************)
(* f32 values.  A value is NaN or a non-negative integer that f32 holds    *)
(* exactly.  f32 has a 24 bit significand: every integer up to 2^24 is     *)
(* exact, above it only multiples of the unit in the last place are.       *)
(***************************************************************************)
F32Digits == 24

RECURSIVE Pow2(_)
Pow2(n) == IF n = 0 THEN 1 ELSE 2 * Pow2(n - 1)

\* 2^24, the first integer whose successor f32 cannot hold.
F32Exact == Pow2(F32Digits)

NaN == [nan |-> TRUE, v |-> 0]
F(n) == [nan |-> FALSE, v |-> n]

\* The unit in the last place of the binade that holds the integer n.
RECURSIVE Ulp(_)
Ulp(n) == IF n < F32Exact THEN 1 ELSE 2 * Ulp(n \div 2)

\* Round the exact integer n to f32: to nearest, ties to the even significand.
RoundF32(n) ==
    LET u == Ulp(n)
        q == n \div u
        r == n % u
    IN  IF 2 * r < u THEN q * u
        ELSE IF 2 * r > u THEN (q + 1) * u
        ELSE IF q % 2 = 0 THEN q * u ELSE (q + 1) * u

\* a + b and a * b of f32.
FAdd(a, b) == IF a.nan \/ b.nan THEN NaN ELSE F(RoundF32(a.v + b.v))
FMul(a, b) == IF a.nan \/ b.nan THEN NaN ELSE F(RoundF32(a.v * b.v))

\* The comparisons of PartialOrd / PartialEq for f32: all false on NaN but `ne`.
FLt(a, b) == ~a.nan /\ ~b.nan /\ a.v < b.v
FLe(a, b) == ~a.nan /\ ~b.nan /\ a.v <= b.v
FGt(a, b) == ~a.nan /\ ~b.nan /\ a.v > b.v
FGe(a, b) == ~a.nan /\ ~b.nan /\ a.v >= b.v
FEq(a, b) == ~a.nan /\ ~b.nan /\ a.v = b.v
FNe(a, b) == ~FEq(a, b)
FNeg(a) == IF a.nan THEN NaN ELSE F(0 - a.v)

(***************************************************************************)
(* Option<E> and Secret<E, T>.  Evidence is an index tuple: <<i>> for      *)
(* usize, <<i, j>> for (usize, usize), <<i, j, k>> for three.              *)
(***************************************************************************)
None == [some |-> FALSE, ind |-> <<>>]
Some(t) == [some |-> TRUE, ind |-> t]

Secret(val, ev) == [value |-> val, evidence |-> ev]

\* What `it` hands back: the accumulator after the call and the returned bool.
Step(self, cont) == [self |-> self, cont |-> cont]

(***************************************************************************)
(* Any: `pub struct Any<I>(pub Option<I>)`.                                *)
(***************************************************************************)
AnyStart == None

\* A slip of Any::it: the match is recorded but the loop is told to go on.
AnyIt1_NoBreak(self, ind, val) ==
    IF val THEN Step(Some(<<ind>>), TRUE) ELSE Step(self, TRUE)

\* impl Lup<usize, bool> for Any<usize>
AnyIt1(self, ind, val) ==
    IF val THEN Step(Some(<<ind>>), FALSE) ELSE Step(self, TRUE)

\* impl Lup<usize, Secret<usize, bool>> for Any<(usize, usize)>
AnyIt2(self, ind, val) ==
    IF val.value
    THEN IF val.evidence.some
         THEN LET ind2 == val.evidence.ind[1]
              IN  Step(Some(<<ind, ind2>>), FALSE)
         ELSE Step(self, TRUE)
    ELSE Step(self, TRUE)

\* impl Lup<usize, Secret<(usize, usize), bool>> for Any<(usize, usize, usize)>
AnyIt3(self, ind, val) ==
    IF val.value
    THEN IF val.evidence.some
         THEN LET a == val.evidence.ind[1]
                  b == val.evidence.ind[2]
              IN  Step(Some(<<ind, a, b>>), FALSE)
         ELSE Step(self, TRUE)
    ELSE Step(self, TRUE)

AnyUnwrap(self) == Secret(self.some, self)

(***************************************************************************)
(* All: `pub struct All<I>(pub Option<I>)`.                                *)
(***************************************************************************)
AllStart == None

\* A slip of All::it: the counterexample is recorded but the loop goes on.
AllIt1_NoBreak(self, ind, val) ==
    IF ~val THEN Step(Some(<<ind>>), TRUE) ELSE Step(self, TRUE)

\* impl Lup<usize, bool> for All<usize>
AllIt1(self, ind, val) ==
    IF ~val THEN Step(Some(<<ind>>), FALSE) ELSE Step(self, TRUE)

\* impl Lup<usize, Secret<usize, bool>> for All<(usize, usize)>
AllIt2(self, ind, val) ==
    IF val.value
    THEN Step(self, TRUE)
    ELSE IF val.evidence.some
         THEN LET ind2 == val.evidence.ind[1]
              IN  Step(Some(<<ind, ind2>>), FALSE)
         ELSE Step(self, TRUE)

\* impl Lup<usize, Secret<(usize, usize), bool>> for All<(usize, usize, usize)>
AllIt3(self, ind, val) ==
    IF val.value
    THEN Step(self, TRUE)
    ELSE IF val.evidence.some
         THEN LET a == val.evidence.ind[1]
                  b == val.evidence.ind[2]
              IN  Step(Some(<<ind, a, b>>), FALSE)
         ELSE Step(self, TRUE)

AllUnwrap(self) == Secret(~self.some, self)

(***************************************************************************)
(* Min: `pub struct Min<I, T>(pub Secret<I, T>)`, the f32 instance.        *)
(***************************************************************************)
MinStart == Secret(NaN, None)

\* A slip of Min::it: `<=` for `<`, so that a tie moves the evidence.
MinIt1_Le(self, ind, val) ==
    IF self.value.nan \/ FLe(val, self.value)
    THEN Step(Secret(val, Some(<<ind>>)), TRUE)
    ELSE Step(self, TRUE)

\* A slip of Min::it: NaN is skipped while the accumulator is still unset.
MinIt1_SkipNaN(self, ind, val) ==
    IF (self.value.nan /\ ~val.nan) \/ FLt(val, self.value)
    THEN Step(Secret(val, Some(<<ind>>)), TRUE)
    ELSE Step(self, TRUE)

\* A slip of Min::it: a NaN input replaces what is stored.
MinIt1_NaNWins(self, ind, val) ==
    IF self.value.nan \/ val.nan \/ FLt(val, self.value)
    THEN Step(Secret(val, Some(<<ind>>)), TRUE)
    ELSE Step(self, TRUE)

\* impl Lup<usize, f32> for Min<usize, f32>
MinIt1(self, ind, val) ==
    IF self.value.nan \/ FLt(val, self.value)
    THEN Step(Secret(val, Some(<<ind>>)), TRUE)
    ELSE Step(self, TRUE)

\* A slip of the nested Min::it: `<=` for `<`, so that a later row wins a tie.
MinIt2_Le(self, ind, val) ==
    IF self.value.nan \/ FLe(val.value, self.value)
    THEN IF val.evidence.some
         THEN Step(Secret(val.value, Some(<<ind, val.evidence.ind[1]>>)), TRUE)
         ELSE Step(self, TRUE)
    ELSE Step(self, TRUE)

\* impl Lup<usize, Secret<usize, f32>> for Min<(usize, usize), f32>
MinIt2(self, ind, val) ==
    IF self.value.nan \/ FLt(val.value, self.value)
    THEN IF val.evidence.some
         THEN LET ind2 == val.evidence.ind[1]
              IN  Step(Secret(val.value, Some(<<ind, ind2>>)), TRUE)
         ELSE Step(self, TRUE)
    ELSE Step(self, TRUE)

\* impl Lup<usize, Secret<(usize, usize), f32>> for Min<(usize, usize, usize), f32>
MinIt3(self, ind, val) ==
    IF self.value.nan \/ FLt(val.value, self.value)
    THEN IF val.evidence.some
         THEN LET a == val.evidence.ind[1]
                  b == val.evidence.ind[2]
              IN  Step(Secret(val.value, Some(<<ind, a, b>>)), TRUE)
         ELSE Step(self, TRUE)
    ELSE Step(self, TRUE)

MinUnwrap(self) == self

(***************************************************************************)
(* Max (src/max.rs) is the mirror image of Min: the same accumulator with   *)
(* `>` for `<`.  "The evidence points to the item that first achieves      *)
(* maximum value."                                                         *)
(***************************************************************************)
MaxStart == Secret(NaN, None)

MaxIt1(self, ind, val) ==
    IF self.value.nan \/ FGt(val, self.value)
    THEN Step(Secret(val, Some(<<ind>>)), TRUE)
    ELSE Step(self, TRUE)

MaxIt2(self, ind, val) ==
    IF self.value.nan \/ FGt(val.value, self.value)
    THEN IF val.evidence.some
         THEN LET ind2 == val.evidence.ind[1]
              IN  Step(Secret(val.value, Some(<<ind, ind2>>)), TRUE)
         ELSE Step(self, TRUE)
    ELSE Step(self, TRUE)

MaxIt3(self, ind, val) ==
    IF self.value.nan \/ FGt(val.value, self.value)
    THEN IF val.evidence.some
         THEN LET a == val.evidence.ind[1]
                  b == val.evidence.ind[2]
              IN  Step(Secret(val.value, Some(<<ind, a, b>>)), TRUE)
         ELSE Step(self, TRUE)
    ELSE Step(self, TRUE)

MaxUnwrap(self) == self

(***************************************************************************)
(* Sum and Prod, the f32 scalar instances.  The same impl serves every     *)
(* nesting level: the inner loop's f32 result is the outer loop's input.   *)
(***************************************************************************)
SumStart == F(0)

\* A slip of Sum::it: the early exit of the searching loops copied over.
SumIt_Break(self, ind, val) == Step(FAdd(self, val), FALSE)

\* impl Lup<usize, f32> for Sum<f32>:  self.0 += val; true
SumIt(self, ind, val) == Step(FAdd(self, val), TRUE)

SumUnwrap(self) == self

ProdStart == F(1)

\* impl Lup<usize, f32> for Prod<f32>:  self.0 *= val; true
ProdIt(self, ind, val) == Step(FMul(self, val), TRUE)

ProdUnwrap(self) == self

SiftStart == <<>>

\* A slip of Sift::it: the value inserted at the front of the list.
SiftIt_Prepend(self, ind, val) == Step(<<val>> \o self, TRUE)

\* impl<T> Lup<usize, T> for Sift<Vec<T>>:  self.0.push(val); true
\* T is any type: the floats of the innermost body, or the Vec an inner
\* Sift returned.
SiftIt(self, ind, val) == Step(Append(self, val), TRUE)

SiftUnwrap(self) == self

\* The sizes Vector is implemented for, and Default::default() of f32.
VectorSizes == {2, 3, 4}
VectorDefault == F(0)

\* Slot ind of the array is element ind + 1 of the sequence.
VectorStart(n) == [k \in 1..n |-> VectorDefault]

\* A slip of Vector::it: the whole array is overwritten.
VectorIt_Fill(self, ind, val) == Step([k \in DOMAIN self |-> val], TRUE)

\* impl Lup<usize, T> for Vector<[T; N]>:  self.0[ind] = val; true
\* The indexing panics when ind >= N; the callers below stay in range.
VectorIt(self, ind, val) == Step([self EXCEPT ![ind + 1] = val], TRUE)

VectorUnwrap(self) == self

(***************************************************************************)
(* The operators of Secret: the value is mapped, the evidence kept.        *)
(***************************************************************************)
\* A slip of Secret::not: the result built afresh, without the evidence.
SecretNot_NoEvidence(s) == Secret(~s.value, None)

SecretNeg(s) == Secret(FNeg(s.value), s.evidence)
SecretNot(s) == Secret(~s.value, s.evidence)
SecretLt(s, other) == Secret(FLt(s.value, other), s.evidence)

\* A slip of Secret::le: the strict comparison.
SecretLe_Strict(s, other) == Secret(FLt(s.value, other), s.evidence)

SecretLe(s, other) == Secret(FLe(s.value, other), s.evidence)
SecretGt(s, other) == Secret(FGt(s.value, other), s.evidence)
SecretGe(s, other) == Secret(FGe(s.value, other), s.evidence)
SecretEq(s, other) == Secret(FEq(s.value, other), s.evidence)
SecretNe(s, other) == Secret(FNe(s.value, other), s.evidence)

(***************************************************************************)
(* The state of one expansion of lup!.                                     *)
(*                                                                         *)
(*   prog     the loops, outermost first: prog[l].kind is the `$sum` type  *)
(*            of loop l and prog[l].post the Secret operators applied to   *)
(*            its result before the enclosing loop sees it                 *)
(*   data     the nested list the loops range over (`$list`)               *)
(*   level    the loop that is executing                                   *)
(*   pc       where that loop stands                                       *)
(*   iter     iter[l], the range iterator of loop l                        *)
(*   idx      idx[l], the index `$i` bound by loop l                       *)
(*   sum      sum[l], the accumulator of loop l                            *)
(*   val      the value of `$body`, about to be passed to `it`             *)
(*   ret      the value of the whole expression                            *)
(*   calls    history: per loop, what the driver has called since the      *)
(*            loop started                                                 *)
(*   visited  history: the index tuples at which the innermost body was    *)
(*            evaluated                                                    *)
(***************************************************************************)
VARIABLES prog, data, level, pc, iter, idx, sum, val, ret, calls, visited

vars == <<prog, data, level, pc, iter, idx, sum, val, ret, calls, visited>>

Depth == Len(prog)

\* Loop l sees values with evidence of Height(l) - 1 indices.
Height(l) == Depth - l + 1

Loop(kind, post) == [kind |-> kind, post |-> post]
Op(name, arg) == [name |-> name, arg |-> arg]

(***************************************************************************)
(* Dispatch on the accumulator type, as the trait resolution does.         *)
(***************************************************************************)
StartOf(kind) ==
    CASE kind = "Any"  -> AnyStart
      [] kind = "All"  -> AllStart
      [] kind = "Min"  -> MinStart
      [] kind = "Max"  -> MaxStart
      [] kind = "Sum"  -> SumStart
      [] kind = "Prod" -> ProdStart
      [] kind = "Sift" -> SiftStart
      [] kind = "Vector2" -> VectorStart(2)
      [] kind = "Vector3" -> VectorStart(3)
      [] kind = "Vector4" -> VectorStart(4)

ItOf(kind, h, self, ind, v) ==
    CASE kind = "Any" /\ h = 1 -> AnyIt1(self, ind, v)
      [] kind = "Any" /\ h = 2 -> AnyIt2(self, ind, v)
      [] kind = "Any" /\ h = 3 -> AnyIt3(self, ind, v)
      [] kind = "All" /\ h = 1 -> AllIt1(self, ind, v)
      [] kind = "All" /\ h = 2 -> AllIt2(self, ind, v)
      [] kind = "All" /\ h = 3 -> AllIt3(self, ind, v)
      [] kind = "Min" /\ h = 1 -> MinIt1(self, ind, v)
      [] kind = "Min" /\ h = 2 -> MinIt2(self, ind, v)
      [] kind = "Min" /\ h = 3 -> MinIt3(self, ind, v)
      [] kind = "Max" /\ h = 1 -> MaxIt1(self, ind, v)
      [] kind = "Max" /\ h = 2 -> MaxIt2(self, ind, v)
      [] kind = "Max" /\ h = 3 -> MaxIt3(self, ind, v)
      [] kind = "Sum"  -> SumIt(self, ind, v)
      [] kind = "Prod" -> ProdIt(self, ind, v)
      [] kind = "Sift" -> SiftIt(self, ind, v)
      [] kind \in {"Vector2", "Vector3", "Vector4"} -> VectorIt(self, ind, v)

UnwrapOf(kind, self) ==
    CASE kind = "Any"  -> AnyUnwrap(self)
      [] kind = "All"  -> AllUnwrap(self)
      [] kind = "Min"  -> MinUnwrap(self)
      [] kind = "Max"  -> MaxUnwrap(self)
      [] kind = "Sum"  -> SumUnwrap(self)
      [] kind = "Prod" -> ProdUnwrap(self)
      [] kind = "Sift" -> SiftUnwrap(self)
      [] kind \in {"Vector2", "Vector3", "Vector4"} -> VectorUnwrap(self)

ApplyOp(op, s) ==
    CASE op.name = "not" -> SecretNot(s)
      [] op.name = "neg" -> SecretNeg(s)
      [] op.name = "lt"  -> SecretLt(s, op.arg)
      [] op.name = "le"  -> SecretLe(s, op.arg)
      [] op.name = "gt"  -> SecretGt(s, op.arg)
      [] op.name = "ge"  -> SecretGe(s, op.arg)
      [] op.name = "eq"  -> SecretEq(s, op.arg)
      [] op.name = "ne"  -> SecretNe(s, op.arg)

\* The operators written after an inner lup!, applied left to right.
RECURSIVE ApplyPost(_, _)
ApplyPost(post, s) ==
    IF post = <<>> THEN s ELSE ApplyPost(Tail(post), ApplyOp(Head(post), s))

(***************************************************************************)
(* The driver: the arms of lup!.                                           *)
(***************************************************************************)
Range(start, end) == [start |-> start, end |-> end]

\* A slip of the `by` arm: an inclusive range.
ByRange_Inclusive(list) == Range(0, Len(list) + 1)

\* `$i by $list`  =>  `$i in 0..$list.len()`
ByRange(list) == Range(0, Len(list))

\* The list loop l ranges over: `$list`, `$list[$i]`, `$list[$i][$j]`.
ListAt(l) ==
    CASE l = 1 -> data
      [] l = 2 -> data[idx[1] + 1]
      [] l = 3 -> data[idx[1] + 1][idx[2] + 1]

\* The indices bound by loops 1..l.
IndexTuple(l) == [k \in 1..l |-> idx[k]]

NoCalls == [next |-> 0, body |-> 0, it |-> <<>>, unwrap |-> 0]

\* A slip of the base arm: the `break` is missing.
AfterIt_NoBreak(cont) == "next"

\* `if !sum.it($i, $body) {break};`
AfterIt(cont) == IF cont THEN "next" ELSE "unwrap"

\* Before the first body is evaluated there is no value of `$body`, and before
\* the end no value of the expression: val and ret hold a value of their type
\* that nothing reads.
NoValue(kind) == IF kind \in {"Any", "All"} THEN FALSE ELSE NaN

\* `let mut sum: $sum = Lup::start(); let mut iter = $iter;` of the outermost
\* loop, for each program and list of `configs`.
InitOf(configs) ==
    \E c \in configs :
        /\ prog = c.prog
        /\ data = c.data
        /\ level = 1
        /\ pc = "next"
        /\ iter = [l \in 1..Len(c.prog) |-> IF l = 1 THEN ByRange(c.data) ELSE Range(0, 0)]
        /\ idx = [l \in 1..Len(c.prog) |-> 0]
        /\ sum = [l \in 1..Len(c.prog) |-> StartOf(c.prog[l].kind)]
        /\ val = NoValue(c.prog[Len(c.prog)].kind)
        /\ ret = UnwrapOf(c.prog[1].kind, StartOf(c.prog[1].kind))
        /\ calls = [l \in 1..Len(c.prog) |-> NoCalls]
        /\ visited = <<>>

\* `while let Some($i) = iter.next()`
IterNext ==
    /\ pc = "next"
    /\ IF iter[level].start < iter[level].end
       THEN /\ idx' = [idx EXCEPT ![level] = iter[level].start]
            /\ iter' = [iter EXCEPT ![level].start = @ + 1]
            /\ calls' = [calls EXCEPT ![level].next = @ + 1]
            /\ pc' = "body"
       ELSE /\ pc' = "unwrap"
            /\ UNCHANGED <<idx, iter, calls>>
    /\ UNCHANGED <<prog, data, level, sum, val, ret, visited>>

\* `$body`: the innermost loop reads the list at the bound indices; an outer
\* loop runs the next lup!, which starts its accumulator and its range.
\* Indexing a list out of bounds panics.
Body ==
    /\ pc = "body"
    /\ calls' = [calls EXCEPT ![level].body = @ + 1,
                              ![IF level < Depth THEN level + 1 ELSE level] =
                                  IF level < Depth THEN NoCalls ELSE @]
    /\ IF level = Depth
       THEN /\ visited' = Append(visited, IndexTuple(level))
            /\ IF idx[level] < Len(ListAt(level))
               THEN /\ val' = ListAt(level)[idx[level] + 1]
                    /\ pc' = "it"
               ELSE /\ pc' = "panic"
                    /\ UNCHANGED val
            /\ UNCHANGED <<level, iter, sum>>
       ELSE /\ IF idx[level] < Len(ListAt(level))
               THEN /\ level' = level + 1
                    /\ sum' = [sum EXCEPT ![level + 1] = StartOf(prog[level + 1].kind)]
                    /\ iter' = [iter EXCEPT ![level + 1] = ByRange(ListAt(level)[idx[level] + 1])]
                    /\ pc' = "next"
               ELSE /\ pc' = "panic"
                    /\ UNCHANGED <<level, iter, sum>>
            /\ UNCHANGED <<val, visited>>
    /\ UNCHANGED <<prog, data, idx, ret>>

\* `sum.it($i, <value of $body>)` and the `break` on false.
It ==
    /\ pc = "it"
    /\ LET r == ItOf(prog[level].kind, Height(level), sum[level], idx[level], val)
       IN  /\ sum' = [sum EXCEPT ![level] = r.self]
           /\ calls' = [calls EXCEPT ![level].it = Append(@, r.cont)]
           /\ pc' = AfterIt(r.cont)
    /\ UNCHANGED <<prog, data, level, iter, idx, val, ret, visited>>

\* `sum.unwrap()`: the value of this lup!.  For an inner loop it is the value
\* of the enclosing loop's body, after the operators written behind it.
Unwrap ==
    /\ pc = "unwrap"
    /\ calls' = [calls EXCEPT ![level].unwrap = @ + 1]
    /\ LET r == UnwrapOf(prog[level].kind, sum[level])
       IN  IF level = 1
           THEN /\ ret' = r
                /\ pc' = "done"
                /\ UNCHANGED <<level, val>>
           ELSE /\ val' = ApplyPost(prog[level].post, r)
                /\ level' = level - 1
                /\ pc' = "it"
                /\ UNCHANGED ret
    /\ UNCHANGED <<prog, data, iter, idx, sum, visited>>

Next == IterNext \/ Body \/ It \/ Unwrap

(***************************************************************************)
(* The inputs: nested lists of a bounded number of nodes.                  *)
(***************************************************************************)
\* The lists of nesting depth d over leaves V with exactly n nodes below the
\* root (inner lists and leaves).
RECURSIVE ListsExact(_, _, _)
ListsExact(d, n, V) ==
    IF n = 0 THEN {<<>>}
    ELSE UNION { { <<h>> \o t :
                     h \in (IF d = 1 THEN (IF k = 0 THEN V ELSE {})
                                     ELSE ListsExact(d - 1, k, V)),
                     t \in ListsExact(d, n - 1 - k, V) } :
                 k \in 0..(n - 1) }

Lists(d, n, V) == UNION { ListsExact(d, k, V) : k \in 0..n }

\* The program with the same kind at every level, no operators between.
Uniform(kind, d) == [l \in 1..d |-> Loop(kind, <<>>)]

Config(p, d) == [prog |-> p, data |-> d]

BoolVals == BOOLEAN
NumVals == {NaN, F(1), F(2)}

\* Single-level loops of the searching and the extremum accumulators.
Configs1 ==
    { Config(Uniform(k, 1), d) : k \in {"Any", "All"}, d \in Lists(1, MaxLen, BoolVals) }
    \cup
    { Config(Uniform(k, 1), d) : k \in {"Min", "Max"}, d \in Lists(1, MaxLen, NumVals) }

Init == InitOf(Configs1)

Spec == Init /\ [][Next]_vars

\* The program is sequential: it always takes its next step.
FairSpec == Spec /\ WF_vars(Next)

(***************************************************************************)
(* Nested loops: `lup!($sum: i, j by list => ..)` and                      *)
(* `lup!($sum: i, j, k by list => ..)`, next to the single loop.           *)
(***************************************************************************)
Depths == 1..3

ConfigsNested ==
    { Config(Uniform(k, n), d) :
        k \in {"Any", "All"}, <<n, d>> \in UNION { {n} \X Lists(n, MaxNodes, BoolVals) : n \in Depths } }
    \cup
    { Config(Uniform(k, n), d) :
        k \in {"Min", "Max"}, <<n, d>> \in UNION { {n} \X Lists(n, MaxNodes, NumVals) : n \in Depths } }

InitNested == InitOf(ConfigsNested)

SpecNested == InitNested /\ [][Next]_vars

(***************************************************************************)
(* Sum and Prod, single and nested.  16777216 = 2^24 is in the inputs of   *)
(* Sum so that an addition can round.                                      *)
(***************************************************************************)
SumVals == {F(1), F(2), F(F32Exact)}
ProdVals == {F(0), F(2), F(3)}

ConfigsSum ==
    { Config(Uniform("Sum", n), d) :
        <<n, d>> \in UNION { {n} \X Lists(n, MaxNodes, SumVals) : n \in Depths } }
    \cup
    { Config(Uniform("Prod", n), d) :
        <<n, d>> \in UNION { {n} \X Lists(n, MaxNodes, ProdVals) : n \in Depths } }

InitSum == InitOf(ConfigsSum)

SpecSum == InitSum /\ [][Next]_vars

(***************************************************************************)
(* An Any over rows whose body is an inner Max or Min compared with a      *)
(* constant: `lup!(Any<_>: i by data => {lup!(Max<_, _>: j by data[i] =>   *)
(* {data[i][j] as f32}).le(&7.0)})`.                                       *)
(***************************************************************************)
CmpOps == {"lt", "le", "gt", "ge", "eq", "ne"}
CmpVals == {F(1), F(2)}

AnyCmp(inner, op, c) == <<Loop("Any", <<>>), Loop(inner, <<Op(op, c)>>)>>

ConfigsAnyCmp ==
    { Config(AnyCmp(inner, op, c), d) :
        inner \in {"Max", "Min"}, op \in CmpOps, c \in CmpVals,
        d \in Lists(2, MaxNodes, CmpVals) }

InitAnyCmp == InitOf(ConfigsAnyCmp)

SpecAnyCmp == InitAnyCmp /\ [][Next]_vars

(***************************************************************************)
(* The base arm as a function: one loop of `kind` over a flat list.        *)
(***************************************************************************)
RECURSIVE RunFrom(_, _, _, _)
RunFrom(kind, self, list, i) ==
    IF i >= Len(list) THEN UnwrapOf(kind, self)
    ELSE LET r == ItOf(kind, 1, self, i, list[i + 1])
         IN  IF r.cont THEN RunFrom(kind, r.self, list, i + 1)
                       ELSE UnwrapOf(kind, r.self)

Lup1(kind, list) == RunFrom(kind, StartOf(kind), list, 0)

(***************************************************************************)
(* Vocabulary of the properties.                                           *)
(***************************************************************************)
SetMin(S) == CHOOSE x \in S : \A y \in S : x <= y
SetMax(S) == CHOOSE x \in S : \A y \in S : x >= y

Indices(list) == 0..(Len(list) - 1)

IsPrefix(s, t) == Len(s) <= Len(t) /\ \A k \in 1..Len(s) : s[k] = t[k]

\* The outermost loop's kind, and whether the program is one loop of it.
Kind == prog[1].kind
Single(kind) == Depth = 1 /\ Kind = kind

\* The number of steps the outermost accumulator has taken.
Steps == Len(calls[1].it)

----------------------------------------------------------------------------
\* C1: a single-level Any over booleans finishes with value = TRUE iff some
\* input is TRUE; the evidence is then the smallest index with a TRUE input,
\* and None when there is none.
C1_AnyFirstMatch ==
    (pc = "done" /\ Single("Any")) =>
        LET hits == {i \in Indices(data) : data[i + 1]}
        IN  /\ ret.value = (hits # {})
            /\ ret.evidence = IF hits = {} THEN None ELSE Some(<<SetMin(hits)>>)

\* An Any loop that stopped at its first match with a later match left unread.
C1_Witness ==
    /\ pc = "done" /\ Single("Any")
    /\ Len(data) = 3 /\ ~data[1] /\ data[2] /\ data[3]
    /\ ret = Secret(TRUE, Some(<<1>>))

\* C2: a single-level All over booleans finishes with value = TRUE iff every
\* input is TRUE (so on the empty range, with evidence None); when FALSE the
\* evidence is the smallest index with a FALSE input.
C2_AllFirstCounterexample ==
    (pc = "done" /\ Single("All")) =>
        LET bad == {i \in Indices(data) : ~data[i + 1]}
        IN  /\ ret.value = (bad = {})
            /\ ret.evidence = IF bad = {} THEN None ELSE Some(<<SetMin(bad)>>)

\* An All loop that stopped at its first counterexample, a later one unread.
C2_Witness ==
    /\ pc = "done" /\ Single("All")
    /\ Len(data) = 3 /\ data[1] /\ ~data[2] /\ ~data[3]
    /\ ret = Secret(FALSE, Some(<<1>>))

\* C3: over a non-empty list of ordered (non-NaN) numbers a single-level Min
\* finishes with the minimum as value and the first index attaining it as
\* evidence; Max with the maximum and the first index attaining it.
C3_ExtremumFirstIndex ==
    (/\ pc = "done" /\ Depth = 1 /\ Kind \in {"Min", "Max"}
     /\ data # <<>> /\ \A i \in Indices(data) : ~data[i + 1].nan) =>
        LET vs  == {data[i + 1].v : i \in Indices(data)}
            ext == IF Kind = "Min" THEN SetMin(vs) ELSE SetMax(vs)
            at  == {i \in Indices(data) : data[i + 1].v = ext}
        IN  /\ ret.value = F(ext)
            /\ ret.evidence = Some(<<SetMin(at)>>)

\* A Min whose minimum is attained twice, after a larger first element.
C3_Witness ==
    /\ pc = "done" /\ Single("Min")
    /\ data = <<F(2), F(1), F(1)>>
    /\ ret = Secret(F(1), Some(<<1>>))

\* C9: a single-level Min or Max has evidence None exactly as long as it has
\* taken no step; over the empty range it finishes with NaN and None, over a
\* non-empty range with the index of an element.  Any over the empty range
\* finishes with FALSE and None.
C9_EvidenceNoneIffNoStep ==
    /\ (Depth = 1 /\ Kind \in {"Min", "Max"}) =>
          /\ (sum[1].evidence = None) <=> (Steps = 0)
          /\ pc = "done" =>
                IF data = <<>>
                THEN ret = Secret(NaN, None)
                ELSE ret.evidence.some /\ ret.evidence.ind[1] \in Indices(data)
    /\ (pc = "done" /\ Single("Any") /\ data = <<>>) => ret = Secret(FALSE, None)

\* A Min that has seen nothing but NaN and still reports an index.
C9_Witness ==
    /\ pc = "done" /\ Single("Min")
    /\ data = <<NaN, NaN>>
    /\ ret.evidence.some

\* C10 as stated: whatever Min has been fed, the stored value is not a NaN
\* input and the evidence does not point to a NaN input.
C10_NaNNeverStored ==
    (Single("Min") /\ sum[1].evidence.some) =>
        /\ ~sum[1].value.nan
        /\ ~data[sum[1].evidence.ind[1] + 1].nan

\* C10, amended: a NaN input never replaces a stored number.  Once a number
\* has been fed, Min (Max) stores the minimum (maximum) of the numbers fed so
\* far, with the first index attaining it; while every input so far was NaN,
\* it stores NaN with the index of the latest input.
C10_NaNNeverBeatsANumber ==
    (Depth = 1 /\ Kind \in {"Min", "Max"} /\ Steps > 0) =>
        LET fed  == 0..(Steps - 1)
            nums == {i \in fed : ~data[i + 1].nan}
            vs   == {data[i + 1].v : i \in nums}
            ext  == IF Kind = "Min" THEN SetMin(vs) ELSE SetMax(vs)
            at   == {i \in nums : data[i + 1].v = ext}
        IN  IF nums = {}
            THEN sum[1] = Secret(NaN, Some(<<Steps - 1>>))
            ELSE sum[1] = Secret(F(ext), Some(<<SetMin(at)>>))

\* A Min that took a NaN first, dropped it for a number, and kept the number
\* against a second NaN.
C10_Witness ==
    /\ pc = "done" /\ Single("Min")
    /\ data = <<NaN, F(2), NaN>>
    /\ ret = Secret(F(2), Some(<<1>>))

\* What C7 says of the states of loop l, which is running or has just ended.
C7_Loop(l) ==
    LET c == calls[l]
        n == Len(c.it)
        inner  == level > l
        atBody == level = l /\ pc = "body"
        atIt   == level = l /\ pc = "it"
        broke  == n > 0 /\ ~c.it[n]
    IN  \* only the last call of `it` can have returned false
        /\ \A k \in 1..(n - 1) : c.it[k]
        \* an index is taken and the body evaluated once per call of `it`
        /\ c.next = n + (IF inner \/ atBody \/ atIt THEN 1 ELSE 0)
        /\ c.body = n + (IF inner \/ atIt THEN 1 ELSE 0)
        \* after a false the loop is at its unwrap, or over
        /\ (broke /\ level = l) => pc \in {"unwrap", "done"}
        \* unwrap is called once, at the end
        /\ c.unwrap = (IF l = 1 /\ pc = "done" THEN 1 ELSE 0)

C7_Safe ==
    /\ \A l \in 1..level : C7_Loop(l)
    /\ pc # "panic"
    /\ pc = "done" =>
          LET n == Steps
          IN  IF \A k \in 1..n : calls[1].it[k]
              THEN n = Len(data)
              ELSE n <= Len(data)

\* C7: once `it` has returned false the driver takes no further index,
\* evaluates no further body and calls `it` no more; it calls unwrap once.
\* The number of calls of `it` is the length of the range, or one more than
\* the index of the first call that returned false; and the driver ends.
C7_DriverStops == []C7_Safe /\ <>(pc = "done")

\* A loop that ended early: `it` returned false before the range was used up.
C7_Witness ==
    /\ pc = "done"
    /\ Steps = 2 /\ Len(data) = 4
    /\ calls[1].it = <<TRUE, FALSE>>
    /\ calls[1].unwrap = 1

----------------------------------------------------------------------------
\* The leaves of a list of nesting depth h, outer index slowest.
RECURSIVE Flatten(_, _)
Flatten(list, h) ==
    IF h = 1 \/ list = <<>> THEN list
    ELSE Flatten(Head(list), h - 1) \o Flatten(Tail(list), h)

\* The index tuples of the leaves of a list of nesting depth h, in
\* lexicographic order; `pre` is the tuple of the enclosing list and `k` the
\* index of the list's first element.
RECURSIVE PositionsFrom(_, _, _, _)
PositionsFrom(list, h, pre, k) ==
    IF list = <<>> THEN <<>>
    ELSE (IF h = 1 THEN << pre \o <<k>> >>
                   ELSE PositionsFrom(Head(list), h - 1, pre \o <<k>>, 0))
         \o PositionsFrom(Tail(list), h, pre, k + 1)

Positions == PositionsFrom(data, Depth, <<>>, 0)

\* The same kind at every level and nothing between the loops.
IsUniform == \A l \in 1..Depth : prog[l] = Loop(Kind, <<>>)

\* C4: a nested Any, All, Min or Max over two or three levels finishes with
\* the value of the single loop over the flattened list, and its evidence is
\* the index tuple of the position the flattened run reports.
C4_NestedEqualsFlattened ==
    (pc = "done" /\ Depth >= 2 /\ IsUniform /\ Kind \in {"Any", "All", "Min", "Max"}) =>
        LET flat == Lup1(Kind, Flatten(data, Depth))
        IN  /\ ret.value = flat.value
            /\ ret.evidence = IF flat.evidence.some
                              THEN Some(Positions[flat.evidence.ind[1] + 1])
                              ELSE None

\* A nested Min whose minimum is in two rows: the first row's index wins.
C4_Witness ==
    /\ pc = "done" /\ Depth = 2 /\ Kind = "Min"
    /\ data = << <<F(2), F(1)>>, <<F(1)>> >>
    /\ ret = Secret(F(1), Some(<<0, 1>>))

\* The extremum of a non-empty row of numbers and the first index attaining it.
RowExt(inner, row) ==
    LET vs == {row[j + 1].v : j \in Indices(row)}
    IN  IF inner = "Max" THEN SetMax(vs) ELSE SetMin(vs)

RowArg(inner, row) == SetMin({j \in Indices(row) : row[j + 1].v = RowExt(inner, row)})

Holds(op, x, c) ==
    CASE op = "lt" -> x < c
      [] op = "le" -> x <= c
      [] op = "gt" -> x > c
      [] op = "ge" -> x >= c
      [] op = "eq" -> x = c
      [] op = "ne" -> x # c

\* C5: an Any over rows of ordered numbers whose body is an inner Max or Min
\* compared with a constant finishes with value = TRUE iff the extremum of
\* some non-empty row satisfies the comparison; the evidence is then (i, j),
\* i the first such row and j the first index attaining the extremum of row i.
C5_AnyOverExtremum ==
    (/\ pc = "done" /\ Depth = 2 /\ Kind = "Any"
     /\ prog[2].kind \in {"Max", "Min"} /\ Len(prog[2].post) = 1) =>
        LET inner == prog[2].kind
            op == prog[2].post[1]
            good == {i \in Indices(data) :
                        /\ data[i + 1] # <<>>
                        /\ Holds(op.name, RowExt(inner, data[i + 1]), op.arg.v)}
        IN  /\ ret.value = (good # {})
            /\ ret.evidence =
                  IF good = {} THEN None
                  ELSE LET i == SetMin(good)
                       IN  Some(<<i, RowArg(inner, data[i + 1])>>)

\* "Is there a row whose maximum is at most 1": the empty row and the row with
\* maximum 2 are passed over, the third row answers.
C5_Witness ==
    /\ pc = "done" /\ prog = AnyCmp("Max", "le", F(1))
    /\ data = << <<>>, <<F(1), F(2)>>, <<F(1)>> >>
    /\ ret = Secret(TRUE, Some(<<2, 0>>))

\* The exact sum and product of the leaves, as integers.
RECURSIVE ExactSum(_)
ExactSum(leaves) == IF leaves = <<>> THEN 0 ELSE Head(leaves).v + ExactSum(Tail(leaves))

RECURSIVE ExactProd(_)
ExactProd(leaves) == IF leaves = <<>> THEN 1 ELSE Head(leaves).v * ExactProd(Tail(leaves))

\* What a nest of Sum or Prod loops computes: each loop folds, from its start
\* value, the values of its body, which are the results of the inner loops.
RECURSIVE Fold(_, _, _, _)
Fold(kind, list, h, acc) ==
    IF list = <<>> THEN acc
    ELSE LET x == IF h = 1 THEN Head(list) ELSE Fold(kind, Head(list), h - 1, StartOf(kind))
         IN  Fold(kind, Tail(list), h, IF kind = "Sum" THEN FAdd(acc, x) ELSE FMul(acc, x))

\* Every index tuple was visited and no call of `it` asked to stop.
AllVisited ==
    /\ visited = Positions
    /\ \A k \in 1..Steps : calls[1].it[k]
    /\ Steps = Len(data)

\* C6 as stated, the sum read as f32 addition in index order: Sum and Prod
\* visit every index, and a nested Sum (Prod) is the Sum (Prod) over the
\* flattened list.
C6_NestedSumIsFlatSum ==
    (pc = "done" /\ Kind \in {"Sum", "Prod"}) =>
        /\ AllVisited
        /\ ret = Lup1(Kind, Flatten(data, Depth))

\* C6, amended: Sum and Prod never stop early and visit every index; each
\* loop adds (multiplies) in f32, from 0 (1), the values of its body, a nested
\* loop those of its inner loops' results.  When the exact sum (product) of
\* the values is at most 2^24, so that no step rounds, the result is that
\* exact sum (product) and equals the result over the flattened list.
C6_SumProdFold ==
    (pc = "done" /\ Kind \in {"Sum", "Prod"}) =>
        LET leaves == Flatten(data, Depth)
            exact == IF Kind = "Sum" THEN ExactSum(leaves) ELSE ExactProd(leaves)
        IN  /\ AllVisited
            /\ ret = Fold(Kind, data, Depth, StartOf(Kind))
            /\ exact <= F32Exact =>
                  /\ ret = F(exact)
                  /\ ret = Lup1(Kind, leaves)

\* A nested Sum that rounds differently from the flattened one: 2^24 + (1 + 1)
\* is 16777218, (2^24 + 1) + 1 is 16777216.
C6_Witness ==
    /\ pc = "done" /\ Kind = "Sum" /\ Depth = 2
    /\ data = << <<F(F32Exact)>>, <<F(1), F(1)>> >>
    /\ ret = F(F32Exact + 2)
    /\ Lup1("Sum", Flatten(data, Depth)) = F(F32Exact)

\* What C8 says of loop l, which is running: its range is that of its list,
\* it has handed out 0, 1, 2, .. without a gap, and the bound index is in the
\* list.
C8_Loop(l) ==
    /\ iter[l].end = Len(ListAt(l))
    /\ iter[l].start = calls[l].next
    /\ iter[l].start <= iter[l].end
    /\ calls[l].next > 0 => idx[l] = calls[l].next - 1

\* C8: with `by`, every loop takes the indices 0 .. len - 1 of its list in
\* increasing order without a gap, and the body is evaluated at the index
\* tuples of the list only, in lexicographic order, up to an early exit: all
\* of them when the accumulator never stops.  No index is out of range.
C8_ByStaysInRange ==
    /\ pc # "panic"
    /\ \A l \in 1..level : C8_Loop(l)
    /\ IsPrefix(visited, Positions)
    /\ (pc = "done" /\ Kind \in {"Min", "Max"}) => visited = Positions

\* A ragged list walked to its end, the empty row skipped.
C8_Witness ==
    /\ pc = "done" /\ Depth = 2 /\ Kind = "Max"
    /\ data = << <<F(1)>>, <<>>, <<F(2), F(1)>> >>
    /\ visited = << <<0, 0>>, <<2, 0>>, <<2, 1>> >>

----------------------------------------------------------------------------
(***************************************************************************)
(* Sift, single and nested: `lup!(Sift<Vec<f32>>: i in 0..5 => ..)` and    *)
(* `lup!(Sift<_>: i in 0..3, j in 0..3 => ..)`.  The body reads the        *)
(* element of the list at the index tuple.                                 *)
(***************************************************************************)
ConfigsSift ==
    { Config(Uniform("Sift", n), d) :
        <<n, d>> \in UNION { {n} \X Lists(n, MaxNodes, NumVals) : n \in Depths } }

InitSift == InitOf(ConfigsSift)

SpecSift == InitSift /\ [][Next]_vars

\* C11: Sift never asks for an early exit and returns the body values in
\* visiting order: the result is as long as the number of iterations and
\* its k-th element is the value of the k-th iteration; a nested Sift
\* returns a list of lists with result[i][j] = body(i, j).  The body being
\* the element of `data` at the index tuple, the result is `data` itself.
C11_SiftCollectsInOrder ==
    /\ \A l \in 1..level :
         /\ \A k \in 1..Len(calls[l].it) : calls[l].it[k]
         /\ Len(sum[l]) = Len(calls[l].it)
         /\ IsPrefix(sum[l], ListAt(l))
    /\ pc = "done" =>
         /\ Len(ret) = Steps
         /\ Steps = Len(data)
         /\ ret = data
         /\ visited = Positions
         /\ (Depth = 1 => \A k \in 1..Len(ret) : ret[k] = data[visited[k][1] + 1])

\* The nested Sift has returned a list of two lists of different lengths.
C11_Witness ==
    /\ pc = "done"
    /\ Depth = 2
    /\ data = << <<F(2)>>, <<F(1), NaN, F(2)>> >>
    /\ ret = << <<F(2)>>, <<F(1), NaN, F(2)>> >>

----------------------------------------------------------------------------
(***************************************************************************)
(* Vector: `lup!(Vector<[f32; 4]>: i in 0..3 => ..)`.  The base arm takes  *)
(* any iterator for `$iter` and any expression for `$body`: here the       *)
(* iterator yields indices of the array in any order, any number of times, *)
(* and the body any number.  `data` is the history of the pairs            *)
(* (index, value) they produced.                                           *)
(***************************************************************************)
VectorKinds == {"Vector2", "Vector3", "Vector4"}
VectorVals == {F(1), F(2)}

\* The size N of the array of the outermost loop.
Size == Len(StartOf(Kind))

Write(ind, v) == [ind |-> ind, val |-> v]

InitVector ==
    \E k \in VectorKinds :
        /\ prog = <<Loop(k, <<>>)>>
        /\ data = <<>>
        /\ level = 1
        /\ pc = "next"
        /\ iter = <<Range(0, 0)>>
        /\ idx = <<0>>
        /\ sum = <<StartOf(k)>>
        /\ val = NoValue(k)
        /\ ret = UnwrapOf(k, StartOf(k))
        /\ calls = <<NoCalls>>
        /\ visited = <<>>

\* `while let Some($i) = iter.next()` for an iterator of in-range indices
\* that yields at most MaxLen of them.
InIterNext ==
    /\ pc = "next"
    /\ \/ /\ calls[level].next < MaxLen
          /\ \E ind \in 0..(Size - 1) : idx' = [idx EXCEPT ![level] = ind]
          /\ calls' = [calls EXCEPT ![level].next = @ + 1]
          /\ pc' = "body"
       \/ /\ pc' = "unwrap"
          /\ UNCHANGED <<idx, calls>>
    /\ UNCHANGED <<prog, data, level, iter, sum, val, ret, visited>>

\* `$body`, any expression of the element type.
InBody ==
    /\ pc = "body"
    /\ \E v \in VectorVals :
          /\ val' = v
          /\ data' = Append(data, Write(idx[level], v))
    /\ calls' = [calls EXCEPT ![level].body = @ + 1]
    /\ visited' = Append(visited, IndexTuple(level))
    /\ pc' = "it"
    /\ UNCHANGED <<prog, level, iter, idx, sum, ret>>

NextVector == InIterNext \/ InBody \/ It \/ Unwrap

SpecVector == InitVector /\ [][NextVector]_vars

\* The value the last of the writes `log` left in slot k; the default when
\* none of them wrote it.
RECURSIVE LastWrite(_, _)
LastWrite(log, k) ==
    IF log = <<>> THEN VectorDefault
    ELSE IF log[Len(log)].ind = k THEN log[Len(log)].val
    ELSE LastWrite(SubSeq(log, 1, Len(log) - 1), k)

\* After every step each slot holds what the last step that wrote it left
\* there, and the finished array is the array after the last step.
C12_Slots ==
    /\ Len(sum[1]) = Size
    /\ \A k \in 0..(Size - 1) : sum[1][k + 1] = LastWrite(SubSeq(data, 1, Steps), k)
    /\ \A k \in 1..Steps : calls[1].it[k]
    /\ pc = "done" =>
         /\ Len(ret) = Size
         /\ \A k \in 0..(Size - 1) : ret[k + 1] = LastWrite(data, k)

\* One step writes val into slot ind and nothing else.
C12_StepFrame ==
    pc = "it" =>
        /\ sum'[1][idx[1] + 1] = val
        /\ \A k \in 0..(Size - 1) : k # idx[1] => sum'[1][k + 1] = sum[1][k + 1]
        /\ DOMAIN sum'[1] = DOMAIN sum[1]

\* C12: for a Vector of size 2..4 and any sequence of in-range steps, a step
\* (ind, val) sets slot ind to val and leaves every other slot unchanged;
\* the finished array holds at each slot the value of the last step that
\* wrote it, and the default value at a slot no step wrote.
C12_VectorLastWriteWins == []C12_Slots /\ [][C12_StepFrame]_vars

\* The array of size 4 driven over 0..3 keeps the default in slot 3.
C12_Witness ==
    /\ pc = "done"
    /\ Kind = "Vector4"
    /\ data = <<Write(0, F(1)), Write(1, F(2)), Write(2, F(1))>>
    /\ ret = <<F(1), F(2), F(1), VectorDefault>>

----------------------------------------------------------------------------
(***************************************************************************)
(* An Any or All over rows whose body is an inner loop followed by Secret  *)
(* operators: `lup!(Any<_>: i by list => {!lup!(All<_>: j by list[i] =>    *)
(* {..})})`, `lup!(Any<_>: i by list => {lup!(Min<_, _>: j by list[i] =>   *)
(* {..}).le(&c)})`, and chains such as `(-lup!(Min ..)).lt(&c)` and        *)
(* `!lup!(Min ..).eq(&c)`.                                                 *)
(***************************************************************************)
\* `!` and `-` take no argument: the field holds a float nothing reads.
Unary(name) == Op(name, NaN)

BoolPosts == { <<>>, <<Unary("not")>>, <<Unary("not"), Unary("not")>> }

NumPosts ==
    { <<Op(o, F(2))>> : o \in CmpOps }
    \cup { <<Unary("neg"), Op("lt", F(0 - 1))>>,
           <<Op("ne", F(1)), Unary("not")>> }

Over(outer, inner, post) == <<Loop(outer, <<>>), Loop(inner, post)>>

ConfigsSecret ==
    { Config(Over(outer, inner, post), d) :
        outer \in {"Any", "All"}, inner \in {"Any", "All"}, post \in BoolPosts,
        d \in Lists(2, MaxNodes, BoolVals) }
    \cup
    { Config(Over("Any", "Min", post), d) :
        post \in NumPosts, d \in Lists(2, MaxNodes, CmpVals) }
    \cup
    { Config(Over("All", "Min", <<Op("ge", F(2))>>), d) :
        d \in Lists(2, MaxNodes, CmpVals) }

InitSecret == InitOf(ConfigsSecret)

SpecSecret == InitSecret /\ [][Next]_vars

\* The result of the inner loop over row k (counted from 1), and the value
\* the outer `it` is fed for it.
Inner(k) == Lup1(prog[2].kind, data[k])
Fed(k) == ApplyPost(prog[2].post, Inner(k))

\* C13: the nested Any, fed evidence-wrapped booleans, finishes with value
\* true iff at least one of the inputs fed to `it` had value true.
C13_AnyTrueIffSomeInputTrue ==
    (pc = "done" /\ Depth = 2 /\ Kind = "Any") =>
        (ret.value <=> \E k \in 1..Steps : Fed(k).value)

\* C14: the nested All, fed evidence-wrapped booleans, finishes with value
\* true iff every input fed to `it` had value true.
C14_AllTrueIffEveryInputTrue ==
    (pc = "done" /\ Depth = 2 /\ Kind = "All") =>
        (ret.value <=> \A k \in 1..Steps : Fed(k).value)

\* What an operator makes of a bare value: the logic and the arithmetic of
\* bool and f32, where every comparison with NaN but `!=` is false.
OpValue(op, v) ==
    CASE op.name = "not" -> ~v
      [] op.name = "neg" -> (IF v.nan THEN NaN ELSE F(0 - v.v))
      [] OTHER -> (IF v.nan \/ op.arg.nan THEN op.name = "ne"
                                          ELSE Holds(op.name, v.v, op.arg.v))

RECURSIVE ChainValue(_, _)
ChainValue(post, v) ==
    IF post = <<>> THEN v ELSE ChainValue(Tail(post), OpValue(Head(post), v))

\* C15: the Secret operators neg, not, lt, le, gt, ge, eq, ne keep the
\* operand's evidence and apply the operation to its value, so what the
\* outer loop is fed after any chain of them carries the inner loop's
\* evidence, and the evidence the outer loop reports ends with it.
C15_OperatorsKeepEvidence ==
    /\ (Depth = 2 /\ level = 1 /\ pc = "it") =>
          /\ val.evidence = Inner(idx[1] + 1).evidence
          /\ val.value = ChainValue(prog[2].post, Inner(idx[1] + 1).value)
    /\ (Depth = 2 /\ pc = "done" /\ ret.evidence.some) =>
          /\ Len(ret.evidence.ind) = 2
          /\ Inner(ret.evidence.ind[1] + 1).evidence = Some(<<ret.evidence.ind[2]>>)

\* Any over !All has reported the inner All's first counterexample.
C15_Witness ==
    /\ pc = "done"
    /\ prog = Over("Any", "All", <<Unary("not")>>)
    /\ data = << <<TRUE, TRUE>>, <<TRUE, FALSE>> >>
    /\ ret = Secret(TRUE, Some(<<1, 1>>))

=============================================================================
